---- MODULE Spec2Model ----
(***************************************************************************)
(* Model of src/qm.py: the pairwise-combination phase of Quine-McCluskey.  *)
(* A term is a sequence of one-character strings.  "0", "1" and "-" are    *)
(* the symbols the program accepts; "x" stands for any other character.    *)
(***************************************************************************)
EXTENDS Integers, Sequences, FiniteSets, TLC

VARIABLES num_inputs, minterms, pc, idx, groups, next_groups, used,
          prime_implicants, i, j1, j2, passes, result, arg1, arg2, ret

vars == <<num_inputs, minterms, pc, idx, groups, next_groups, used,
          prime_implicants, i, j1, j2, passes, result, arg1, arg2, ret>>

\* ------------------------------------------------------------------ bounds
MaxN == 3
MaxLen == 3
MaxBinN == 2
MaxBinLen == 4
MaxTermLen == 2

\* ----------------------------------------------------------------- helpers
Symbols == {"0", "1", "-"}

None == <<"None">>

Min(a, b) == IF a <= b THEN a ELSE b

Range(s) == {s[k] : k \in DOMAIN s}

SeqsUpTo(S, n) == UNION {[1..k -> S] : k \in 0..n}

\* str.count('1')
count_ones(binary_string) ==
    Cardinality({k \in DOMAIN binary_string : binary_string[k] = "1"})

\* Mutation: any positive number of differences is accepted.
combine_terms_any_diff(term1, term2) ==
    LET n == Min(Len(term1), Len(term2))
        diff_count == Cardinality({k \in 1..n : term1[k] # term2[k]})
        combined == [k \in 1..n |-> IF term1[k] # term2[k] THEN "-" ELSE term1[k]]
    IN  IF diff_count >= 1 THEN combined ELSE None

\* zip() stops at the shorter operand.
combine_terms(term1, term2) ==
    LET n == Min(Len(term1), Len(term2))
        diff_count == Cardinality({k \in 1..n : term1[k] # term2[k]})
        combined == [k \in 1..n |-> IF term1[k] # term2[k] THEN "-" ELSE term1[k]]
    IN  IF diff_count = 1 THEN combined ELSE None

\* Python truth value of what combine_terms returns: None and '' are false.
Truthy(c) == c # None /\ c # <<>>

\* Mutation: only the length is validated.
WellFormedLengthOnly(term, n) == Len(term) = n

\* The negation of the skip condition of the grouping loop.
WellFormed(term, n) ==
    Len(term) = n /\ \A k \in DOMAIN term : term[k] \in Symbols

EmptyGroups(n) == [k \in 0..n |-> <<>>]

AddToGroup(g, term) == [g EXCEPT ![count_ones(term)] = Append(@, term)]

\* The body of the grouping loop: an invalid term is skipped.
GroupTerm(g, n, term) ==
    IF ~WellFormed(term, n) THEN g ELSE AddToGroup(g, term)

\* Mutation: only the first operand is marked.
MergePairFirstOnly(ng, u, term1, term2) ==
    LET combined == combine_terms(term1, term2)
    IN  IF Truthy(combined)
        THEN [next_groups |-> [ng EXCEPT ![count_ones(combined)] = Append(@, combined)],
              used |-> u \cup {term1}]
        ELSE [next_groups |-> ng, used |-> u]

\* Mutation: the merged term is filed under the second operand's count.
MergePairSecondKey(ng, u, term1, term2) ==
    LET combined == combine_terms(term1, term2)
    IN  IF Truthy(combined)
        THEN [next_groups |-> [ng EXCEPT ![count_ones(term2)] = Append(@, combined)],
              used |-> u \cup {term1, term2}]
        ELSE [next_groups |-> ng, used |-> u]

\* Mutation: a first operand that is already absorbed is not tried again.
MergePairSkipUsed(ng, u, term1, term2) ==
    LET combined == combine_terms(term1, term2)
    IN  IF Truthy(combined) /\ term1 \notin u
        THEN [next_groups |-> [ng EXCEPT ![count_ones(combined)] = Append(@, combined)],
              used |-> u \cup {term1, term2}]
        ELSE [next_groups |-> ng, used |-> u]

\* The body of the innermost loop.
MergePair(ng, u, term1, term2) ==
    LET combined == combine_terms(term1, term2)
    IN  IF Truthy(combined)
        THEN [next_groups |-> [ng EXCEPT ![count_ones(combined)] = Append(@, combined)],
              used |-> u \cup {term1, term2}]
        ELSE [next_groups |-> ng, used |-> u]

\* The first (i, term1, term2) the three nested loops visit at or after
\* position <<a, b, c>>; <<n, 1, 1>> when the loops are exhausted.
RECURSIVE Seek(_, _, _, _, _)
Seek(g, n, a, b, c) ==
    IF a >= n THEN <<n, 1, 1>>
    ELSE IF b > Len(g[a]) THEN Seek(g, n, a + 1, 1, 1)
    ELSE IF c > Len(g[a + 1]) THEN Seek(g, n, a, b + 1, 1)
    ELSE <<a, b, c>>

\* Mutation: the last group is not scanned.
UnabsorbedButLast(g, u) ==
    {t \in UNION {Range(g[k]) : k \in (DOMAIN g) \ {Cardinality(DOMAIN g) - 1}} : t \notin u}

\* The terms the collection loop adds to prime_implicants.
Unabsorbed(g, u) == {t \in UNION {Range(g[k]) : k \in DOMAIN g} : t \notin u}

AnyNonEmpty(g) == \E k \in DOMAIN g : g[k] # <<>>

\* Mutation: the current generation is tested instead of the next one.
ShouldBreakOnCurrent(g, ng) == ~AnyNonEmpty(g)

\* The loop exit test.
ShouldBreak(g, ng) == ~AnyNonEmpty(ng)

\* Code-point order of the symbols: '-' (45) < '0' (48) < '1' (49) < 'x'.
SymOrd(c) == CASE c = "-" -> 45 [] c = "0" -> 48 [] c = "1" -> 49 [] OTHER -> 120

\* Python's str comparison a < b.
StrLess(a, b) ==
    \E k \in 1..(Min(Len(a), Len(b)) + 1) :
        /\ \A m \in 1..(k - 1) : a[m] = b[m]
        /\ IF k <= Min(Len(a), Len(b))
           THEN SymOrd(a[k]) < SymOrd(b[k])
           ELSE Len(a) < Len(b)

RECURSIVE sorted(_)
sorted(S) ==
    IF S = {} THEN <<>>
    ELSE LET m == CHOOSE t \in S : \A o \in S \ {t} : StrLess(t, o)
         IN  <<m>> \o sorted(S \ {m})

\* ------------------------------------------------- the function as a whole
\* The grouping loop over a whole list.
RECURSIVE GroupFrom(_, _, _)
GroupFrom(g, n, ms) ==
    IF ms = <<>> THEN g ELSE GroupFrom(GroupTerm(g, n, Head(ms)), n, Tail(ms))

\* The three nested merge loops from position pos on.
RECURSIVE MergeFrom(_, _, _, _)
MergeFrom(g, n, pos, acc) ==
    IF pos[1] >= n THEN acc
    ELSE MergeFrom(g, n, Seek(g, n, pos[1], pos[2], pos[3] + 1),
                   MergePair(acc.next_groups, acc.used,
                             g[pos[1]][pos[2]], g[pos[1] + 1][pos[3]]))

\* The while loop: one pass, then the exit test.
RECURSIVE Reduce(_, _, _)
Reduce(g, n, pi) ==
    LET m == MergeFrom(g, n, Seek(g, n, 0, 1, 1),
                       [next_groups |-> EmptyGroups(n), used |-> {}])
        pi2 == pi \cup Unabsorbed(g, m.used)
    IN  IF ShouldBreak(g, m.next_groups) THEN pi2
        ELSE Reduce(m.next_groups, n, pi2)

quine_mccluskey(n, ms) == sorted(Reduce(GroupFrom(EmptyGroups(n), n, ms), n, {}))

\* ------------------------------------------------------------ input spaces
BinaryTerms(n) == [1..n -> {"0", "1"}]

WellFormedTerms(n) == [1..n -> Symbols]

\* Representatives of the terms the grouping loop rejects: too long, too
\* short, and of the right length with a foreign character.
BadTerms(n) ==
    {[k \in 1..(n + 1) |-> "1"]} \cup
    (IF n >= 1
     THEN {[k \in 1..(n - 1) |-> "0"], [k \in 1..n |-> IF k = n THEN "x" ELSE "1"]}
     ELSE {})

TermsIn(n) == WellFormedTerms(n) \cup BadTerms(n)

ScenarioTerms == {<<"0", "0", "0">>, <<"0", "0", "1">>, <<"1", "0", "1">>}

Scenario == << <<"0", "0", "0">>, <<"0", "0", "1">>, <<"1", "0", "1">> >>

\* ----------------------------------------------------------- state machine
\* The state on entry to quine_mccluskey(n, ms), groups already allocated.
Entry ==
    /\ pc = "group"
    /\ idx = 1
    /\ groups = EmptyGroups(num_inputs)
    /\ next_groups = EmptyGroups(num_inputs)
    /\ used = {}
    /\ prime_implicants = {}
    /\ i = 0 /\ j1 = 1 /\ j2 = 1
    /\ passes = 0
    /\ result = <<>>
    /\ arg1 = <<>> /\ arg2 = <<>> /\ ret = None

Init ==
    /\ num_inputs \in 0..MaxN
    /\ minterms \in SeqsUpTo(TermsIn(num_inputs), MaxLen)
    /\ Entry

InitBinary ==
    /\ num_inputs \in 0..MaxBinN
    /\ minterms \in SeqsUpTo(BinaryTerms(num_inputs), MaxBinLen)
    /\ Entry

InitScenario ==
    /\ num_inputs = Len(Scenario[1])
    /\ minterms \in SeqsUpTo(ScenarioTerms, Len(Scenario))
    /\ Entry

loopvars == <<i, j1, j2>>
harness == <<arg1, arg2, ret>>

\* for term in minterms: validate and group.
GroupStep ==
    /\ pc = "group"
    /\ idx <= Len(minterms)
    /\ groups' = GroupTerm(groups, num_inputs, minterms[idx])
    /\ idx' = idx + 1
    /\ UNCHANGED <<num_inputs, minterms, pc, next_groups, used, prime_implicants,
                   loopvars, passes, result, harness>>

\* prime_implicants = set(); enter the while loop.
EnterLoop ==
    /\ pc = "group"
    /\ idx > Len(minterms)
    /\ prime_implicants' = {}
    /\ pc' = "pass"
    /\ UNCHANGED <<num_inputs, minterms, idx, groups, next_groups, used,
                   loopvars, passes, result, harness>>

\* Top of the while body: fresh next_groups and used, loops at their start.
StartPass ==
    /\ pc = "pass"
    /\ next_groups' = EmptyGroups(num_inputs)
    /\ used' = {}
    /\ LET p == Seek(groups, num_inputs, 0, 1, 1)
       IN  i' = p[1] /\ j1' = p[2] /\ j2' = p[3]
    /\ passes' = passes + 1
    /\ pc' = "merge"
    /\ UNCHANGED <<num_inputs, minterms, idx, groups, prime_implicants, result, harness>>

\* One iteration of the innermost loop.
MergeStep ==
    /\ pc = "merge"
    /\ i < num_inputs
    /\ LET m == MergePair(next_groups, used, groups[i][j1], groups[i + 1][j2])
           p == Seek(groups, num_inputs, i, j1, j2 + 1)
       IN  /\ next_groups' = m.next_groups
           /\ used' = m.used
           /\ i' = p[1] /\ j1' = p[2] /\ j2' = p[3]
    /\ UNCHANGED <<num_inputs, minterms, pc, idx, groups, prime_implicants,
                   passes, result, harness>>

\* The collection loop, run once the merge loops are exhausted.
Collect ==
    /\ pc = "merge"
    /\ i >= num_inputs
    /\ prime_implicants' = prime_implicants \cup Unabsorbed(groups, used)
    /\ pc' = "check"
    /\ UNCHANGED <<num_inputs, minterms, idx, groups, next_groups, used,
                   loopvars, passes, result, harness>>

\* break, then return sorted(prime_implicants).
Break ==
    /\ pc = "check"
    /\ ShouldBreak(groups, next_groups)
    /\ result' = sorted(prime_implicants)
    /\ pc' = "done"
    /\ UNCHANGED <<num_inputs, minterms, idx, groups, next_groups, used,
                   prime_implicants, loopvars, passes, harness>>

\* groups = next_groups, and around the loop again.
Continue ==
    /\ pc = "check"
    /\ ~ShouldBreak(groups, next_groups)
    /\ groups' = next_groups
    /\ pc' = "pass"
    /\ UNCHANGED <<num_inputs, minterms, idx, next_groups, used,
                   prime_implicants, loopvars, passes, result, harness>>

Next == GroupStep \/ EnterLoop \/ StartPass \/ MergeStep \/ Collect \/ Break \/ Continue

Spec == Init /\ [][Next]_vars

FairSpec == Init /\ [][Next]_vars /\ WF_vars(Next)

SpecBinary == InitBinary /\ [][Next]_vars

SpecScenario == InitScenario /\ [][Next]_vars

\* A direct call combine_terms(arg1, arg2).
InitCombine ==
    /\ arg1 \in SeqsUpTo(Symbols, MaxTermLen)
    /\ arg2 \in SeqsUpTo(Symbols, MaxTermLen)
    /\ ret = None
    /\ pc = "call"
    /\ num_inputs = 0 /\ minterms = <<>> /\ idx = 1
    /\ groups = EmptyGroups(0) /\ next_groups = EmptyGroups(0)
    /\ used = {} /\ prime_implicants = {}
    /\ i = 0 /\ j1 = 1 /\ j2 = 1 /\ passes = 0 /\ result = <<>>

CallCombine ==
    /\ pc = "call"
    /\ ret' = combine_terms(arg1, arg2)
    /\ pc' = "returned"
    /\ UNCHANGED <<num_inputs, minterms, idx, groups, next_groups, used,
                   prime_implicants, loopvars, passes, result, arg1, arg2>>

NextCombine == CallCombine

SpecCombine == InitCombine /\ [][NextCombine]_vars

\* The step-by-step run and the function as a whole agree.
ModelAgreement ==
    pc = "done" => result = quine_mccluskey(num_inputs, minterms)

\* ------------------------------------------------ vocabulary of the claims
Malformed(t) == Len(t) # num_inputs \/ \E k \in DOMAIN t : t[k] \notin {"0", "1", "-"}

ValidInput == SelectSeq(minterms, LAMBDA t : ~Malformed(t))

Ones(t) == Cardinality({k \in 1..Len(t) : t[k] = "1"})

Dashes(t) == Cardinality({k \in 1..Len(t) : t[k] = "-"})

DiffersInOne(a, b) ==
    Len(a) = Len(b) /\ Cardinality({k \in 1..Len(a) : a[k] # b[k]}) = 1

\* a with '-' at the positions where b differs.
Merged(a, b) == [k \in 1..Len(a) |-> IF a[k] # b[k] THEN "-" ELSE a[k]]

\* Term t covers the assignment a.
Covers(t, a) == \A k \in 1..Len(t) : t[k] = "-" \/ t[k] = a[k]

Assignments == [1..num_inputs -> {"0", "1"}]

Cubes == [1..num_inputs -> {"0", "1", "-"}]

OnSet == Range(minterms)

IsImplicant(t) == \A a \in Assignments : Covers(t, a) => a \in OnSet

\* No strictly larger implicant covers t.
IsPrime(t) ==
    /\ IsImplicant(t)
    /\ ~\E p \in Cubes : p # t /\ Covers(p, t) /\ IsImplicant(p)

Perms(s) ==
    {[k \in 1..Len(s) |-> s[f[k]]] :
        f \in {g \in [1..Len(s) -> 1..Len(s)] : \A x, y \in 1..Len(s) : g[x] = g[y] => x = y}}

Stored == UNION {Range(groups[k]) \cup Range(next_groups[k]) : k \in DOMAIN groups}

PassEnded == pc \in {"check", "done"}

\* -------------------------------------------------------------- the claims
\* C1 (as amended): quine_mccluskey terminates, and it never executes more
\* than num_inputs + 1 passes of the merge loop, the final pass included.
C1_PassBound == [](passes <= num_inputs + 1) /\ <>(pc = "done")

\* C1 as stated: on return at most num_inputs passes have been executed.
C1_AtMostNPasses == pc = "done" => passes <= num_inputs

C1_Witness == pc = "done" /\ num_inputs >= 2 /\ passes = num_inputs + 1

\* C2 (as amended): for width 3 and [000, 001, 101] the term 101 is marked
\* absorbed by the end of the first pass (it merges with 001 into -01) and
\* the result is [-01, 00-].
C2_ScenarioResult ==
    minterms = Scenario =>
        /\ (PassEnded /\ passes = 1 => <<"1", "0", "1">> \in used)
        /\ (pc = "done" => result = << <<"-", "0", "1">>, <<"0", "0", "-">> >>)

\* C2 as stated: 101 is never marked absorbed and the result contains 101
\* and 00-.
C2_UnmatchedSurvives ==
    minterms = Scenario =>
        /\ <<"1", "0", "1">> \notin used
        /\ (pc = "done" =>
                {<<"1", "0", "1">>, <<"0", "0", "-">>} \subseteq Range(result))

C2_Witness == minterms = Scenario /\ pc = "done" /\ passes = 2

\* C3: for binary minterm lists, every prime implicant of the on-set is in
\* the result.
C3_PrimesInResult ==
    pc = "done" => \A t \in Cubes : IsPrime(t) => t \in Range(result)

C3_Witness ==
    /\ pc = "done"
    /\ \E t, o \in Range(result) :
        t # o /\ IsPrime(t) /\ IsPrime(o) /\ Dashes(t) >= 1

\* C4: for binary minterm lists, reducing the result again with the same
\* width yields no fewer terms, and no two terms of the result merge.
C4_ReReduction ==
    pc = "done" =>
        /\ Len(quine_mccluskey(num_inputs, result)) >= Len(result)
        /\ \A a, b \in Range(result) :
            Ones(b) = Ones(a) + 1 => ~Truthy(combine_terms(a, b))

C4_Witness ==
    /\ pc = "done"
    /\ Len(result) >= 2
    /\ \E a, b \in Range(result) : Ones(b) = Ones(a) + 1 /\ Dashes(a) >= 1

\* C5: every permutation of the minterm list gives the same sorted result.
C5_OrderIndependent ==
    pc = "done" =>
        \A p \in Perms(minterms) : quine_mccluskey(num_inputs, p) = result

C5_Witness ==
    /\ pc = "done"
    /\ Cardinality(Range(ValidInput)) >= 3
    /\ \E t \in Range(result) : Dashes(t) >= 1
    /\ Len(result) >= 2

\* C6: at the end of each pass every pair of terms of adjacent groups that
\* differs in exactly one position has both terms marked absorbed, so no
\* term the pass adds to the accumulator is combinable with a term of an
\* adjacent group.
C6_Absorption ==
    PassEnded =>
        /\ \A k \in 0..(num_inputs - 1) :
            \A a \in Range(groups[k]), b \in Range(groups[k + 1]) :
                DiffersInOne(a, b) => a \in used /\ b \in used
        /\ \A k \in 0..num_inputs : \A t \in Range(groups[k]) :
            t \notin used =>
                /\ t \in prime_implicants
                /\ \A m \in {k - 1, k + 1} \cap (0..num_inputs) :
                    \A o \in Range(groups[m]) : ~DiffersInOne(t, o)

C6_Witness ==
    /\ pc = "check"
    /\ num_inputs >= 2
    /\ Cardinality(used) >= 2
    /\ \E k \in 0..num_inputs : \E t \in Range(groups[k]) : t \notin used

\* C7: malformed terms never enter a group, the absorption record, the
\* accumulator or the result, and the result returned is that of the list
\* with the malformed terms removed.
C7_MalformedDropped ==
    /\ \A t \in Stored \cup used \cup prime_implicants \cup Range(result) : ~Malformed(t)
    /\ pc = "done" => result = quine_mccluskey(num_inputs, ValidInput)

C7_Witness ==
    /\ pc = "done"
    /\ Len(ValidInput) >= 2
    /\ Len(minterms) > Len(ValidInput)
    /\ Malformed(minterms[1])
    /\ \E t \in Range(result) : Dashes(t) >= 1

C9_SameFunction ==
    pc = "done" =>
        {a \in Assignments : \E t \in Range(result) : Covers(t, a)} = OnSet

C9_Witness ==
    /\ pc = "done"
    /\ Cardinality(OnSet) = 3
    /\ \E t \in Range(result) : Dashes(t) >= 1

\* C10: every term stored in group k of the current or the next generation
\* has length num_inputs and exactly k ones, 0 <= k <= num_inputs, and every
\* merge of a group-k term with a group-(k+1) term is in next group k.
C10_GroupInvariant ==
    /\ DOMAIN groups = 0..num_inputs
    /\ DOMAIN next_groups = 0..num_inputs
    /\ \A k \in 0..num_inputs :
        \A t \in Range(groups[k]) \cup Range(next_groups[k]) :
            Len(t) = num_inputs /\ Ones(t) = k
    /\ PassEnded =>
        \A k \in 0..(num_inputs - 1) :
            \A a \in Range(groups[k]), b \in Range(groups[k + 1]) :
                DiffersInOne(a, b) => Merged(a, b) \in Range(next_groups[k])

C10_Witness ==
    /\ pc = "check"
    /\ \E k \in 1..num_inputs : next_groups[k] # <<>>
    /\ next_groups[0] # <<>>

====
